---------------------------- MODULE Spec2Model ----------------------------
(***************************************************************************)
(* Model of import_corpus.py: the field transform helpers, the four record *)
(* decoders (dictify), the Validator and the batching ingestion handler    *)
(* (BaseHandler.handle / batch_insert) driven by __main__.                 *)
(*                                                                         *)
(* Python values.  A str is a sequence of one-character strings, so that   *)
(* s[0], s == '', s.lower() and s.isalpha() are computed and not assumed.  *)
(* None, True, False and int objects are one-element / tagged sequences    *)
(* whose first element is not a character, so they differ from every str   *)
(* exactly as the Python objects do.                                       *)
(***************************************************************************)
EXTENDS Integers, Sequences, FiniteSets, TLC

None    == <<"None">>
PyTrue  == <<"True">>
PyFalse == <<"False">>

Range(s) == {s[i] : i \in 1..Len(s)}

UpperChars == <<"A","B","C","D","E","F","G","H","I","J","K","L","M",
                "N","O","P","Q","R","S","T","U","V","W","X","Y","Z">>
LowerChars == <<"a","b","c","d","e","f","g","h","i","j","k","l","m",
                "n","o","p","q","r","s","t","u","v","w","x","y","z">>
Digits == {"0","1","2","3","4","5","6","7","8","9"}

\* str.isalpha() of one character
IsAlpha(c) == c \in Range(UpperChars) \cup Range(LowerChars)

\* str.lower()
LowerChar(c) ==
    IF c \in Range(UpperChars)
    THEN LowerChars[CHOOSE i \in 1..Len(UpperChars) : UpperChars[i] = c]
    ELSE c
Lower(s) == [i \in 1..Len(s) |-> LowerChar(s[i])]

\* int(s) succeeds: an optional sign and at least one digit
IsSign(c) == c \in {"+", "-"}
Unsigned(s) == IF Len(s) > 0 /\ IsSign(s[1]) THEN Tail(s) ELSE s
ParsesAsInt(s) ==
    /\ s # None
    /\ Len(Unsigned(s)) > 0
    /\ \A i \in 1..Len(Unsigned(s)) : Unsigned(s)[i] \in Digits

\* Decimal(s) succeeds: an optional sign, digits and at most one point
ParsesAsDecimal(s) ==
    /\ s # None
    /\ \E i \in 1..Len(Unsigned(s)) : Unsigned(s)[i] \in Digits
    /\ \A i \in 1..Len(Unsigned(s)) : Unsigned(s)[i] \in Digits \cup {"."}
    /\ Cardinality({i \in 1..Len(Unsigned(s)) : Unsigned(s)[i] = "."}) <= 1

\* the int object int(s): its digits without leading zeros, tagged so that
\* it never equals a str (42 != "42")
RECURSIVE StripZeros(_)
StripZeros(s) ==
    IF Len(s) > 1 /\ s[1] = "0" THEN StripZeros(Tail(s)) ELSE s
IntOf(s) ==
    LET mag == StripZeros(Unsigned(s))
        neg == Len(s) > 0 /\ s[1] = "-" /\ mag # <<"0">>
    IN  <<"int">> \o (IF neg THEN <<"-">> ELSE <<>>) \o mag

(***************************************************************************)
(* TransformHelper                                                         *)
(***************************************************************************)
DefaultTrueValues == {<<"y">>, <<"t">>}

transform_empty_to_none(d, fields) ==
    [k \in DOMAIN d |->
        IF k \in fields THEN (IF d[k] = <<>> THEN None ELSE d[k]) ELSE d[k]]

\* mutant: a blank is left for blank-to-null instead of being coerced
transform_invalid_booleans_KeepBlank(d, fields) ==
    [k \in DOMAIN d |->
        IF k \in fields /\ d[k] # <<>>
        THEN (IF Lower(d[k]) \in DefaultTrueValues THEN PyTrue ELSE PyFalse)
        ELSE d[k]]

transform_invalid_booleans(d, fields) ==
    [k \in DOMAIN d |->
        IF k \in fields
        THEN (IF Lower(d[k]) \in DefaultTrueValues THEN PyTrue ELSE PyFalse)
        ELSE d[k]]

transform_question_mark_to_none(d, fields) ==
    [k \in DOMAIN d |->
        IF k \in fields THEN (IF d[k] = <<"?">> THEN None ELSE d[k]) ELSE d[k]]

(***************************************************************************)
(* Record decoders.  A decoder returns [exc, d]: exc = "none" and the      *)
(* mapping d, or the exception it raised.                                  *)
(***************************************************************************)
OccurrenceFields ==
    <<"occurrence_id", "guid", "record_guid", "modified_on", "imaged",
      "information_withheld", "basis_of_record", "herbarium", "collection",
      "dataset", "accession", "catalog", "barcode", "other_numbers",
      "family", "taxon_name", "accepted", "scientific_name", "notho_genus",
      "genus", "notho_species", "specific_epithet", "specific_authors",
      "infraspecific_rank", "notho_infraspecies", "infraspecific_epithet",
      "infraspecific_authors", "hybrid_symbol", "notho_genus_2", "genus_2",
      "notho_species_2", "specific_epithet_2", "specific_authors_2",
      "infraspecific_rank_2", "notho_infraspecies_2",
      "infraspecific_epithet_2", "infraspecific_authors_2", "cultivar",
      "name_qualifier", "qualifier_position", "is_type", "type_designation",
      "site_number", "collector", "collector_number", "other_collectors",
      "day_collected", "month_collected", "year_collected",
      "verbatim_collection_date", "day_of_year", "country", "state_province",
      "county", "locality", "site_description", "verbatim_elevation",
      "minimum_elevation_in_meters", "maximum_elevation_in_meters",
      "verbatim_depth", "minimum_depth_in_meters", "maximum_depth_in_meters",
      "verbatim_coordinates", "decimal_latitude", "decimal_longitude",
      "valid_lat_lng", "geodetic_datum", "coordinate_uncertainty_in_meters",
      "georeferenced_by", "georeference_sources", "georeference_remarks",
      "specimen_notes", "phenology", "cultivated", "origin">>

\* the fields the Annotation decoder pops between family and day_annotated
AnnotationMidFields ==
    <<"scientific_name", "notho_genus", "genus", "notho_species",
      "specific_epithet", "specific_authors", "infraspecific_rank",
      "notho_infraspecies", "infraspecific_epithet", "infraspecific_authors",
      "hybrid_symbol", "notho_genus_2", "genus_2", "notho_species_2",
      "specific_epithet_2", "specific_authors_2", "infraspecific_rank_2",
      "notho_infraspecies_2", "infraspecific_epithet_2",
      "infraspecific_authors_2", "cultivar", "name_qualifier",
      "qualifier_position", "nomenclatural_code", "annotated_by">>

TypeFields ==
    <<"occurrence_id", "sequence_number", "family", "scientific_name",
      "notho_genus", "genus", "notho_species", "specific_epithet",
      "specific_authors", "infraspecific_rank", "notho_infraspecies",
      "infraspecific_epithet", "infraspecific_authors", "cultivar",
      "type_designation", "holotype_location", "year_published",
      "publication", "notes">>

MediaFields ==
    <<"occurrence_id", "modified_on", "media_guid", "file_name",
      "file_format", "viewer_format", "thumbnail_url", "file_url",
      "viewer_url", "date_created", "created_by", "publisher", "license">>

OccurrenceColumns == 75
AnnotationColumns == 34

NoDict == <<>>
Raised(e) == [exc |-> e, d |-> NoDict]
Returned(m) == [exc |-> "none", d |-> m]

\* d[name] = row.pop(0) for each name of fields in turn; needs
\* Len(row) >= Len(fields)
PopFields(fields, row) ==
    [n \in Range(fields) |->
        row[CHOOSE i \in 1..Len(fields) : fields[i] = n]]

\* the list left after n pops
Drop(row, n) == SubSeq(row, n + 1, Len(row))

OccurenceBooleans ==
    {"imaged", "accepted", "is_type", "valid_lat_lng", "cultivated"}

OccurencesHandler_dictify(row) ==
    IF Len(row) # OccurrenceColumns
    THEN Raised("ValueError")
    ELSE LET d0 == PopFields(OccurrenceFields, row)
             d1 == transform_invalid_booleans(d0, OccurenceBooleans)
         IN  Returned(transform_empty_to_none(d1, DOMAIN d1))
ICBN == <<"I","C","B","N">>

AnnotationKeys ==
    {"occurrence_id", "current_annotation", "sequence_number", "family",
     "day_annotated", "month_annotated", "year_annotated",
     "annotation_references", "annotation_remarks"}
        \cup Range(AnnotationMidFields)

\* mutant: the value after current_annotation is always the sequence number
SequenceNumberSkipped_Never(seq_num) == FALSE

\* the raw value popped right after current_annotation is taken as family
\* when its first character is alphabetic (seq_num[0] is evaluated: it
\* raises IndexError on the empty string)
SequenceNumberSkipped(seq_num) == IsAlpha(seq_num[1])

\* mutant: the day value decides
YearIsAnnotator_ByDay(day_annotated, month_annotated) == day_annotated = ICBN

\* which raw value decides that the field after month_annotated is the
\* annotator and not the year
YearIsAnnotator(day_annotated, month_annotated) == month_annotated = ICBN

AnnotationsHandler_dictify(row) ==
    IF Len(row) # AnnotationColumns
    THEN Raised("ValueError")
    ELSE
    LET rest1   == Drop(row, 2)
        seq_num == rest1[1]
        rest2   == Drop(rest1, 1)
    IN  IF seq_num = <<>>
        THEN Raised("IndexError")
        ELSE
        LET skipped == SequenceNumberSkipped(seq_num)
            rest3   == IF skipped THEN rest2 ELSE Drop(rest2, 1)
            mid     == PopFields(AnnotationMidFields, rest3)
            rest4   == Drop(rest3, Len(AnnotationMidFields))
            day_annotated   == rest4[1]
            month_annotated == rest4[2]
            rest5   == Drop(rest4, 2)
            monthIsName == /\ month_annotated # ICBN
                           /\ month_annotated # <<>>
                           /\ IsAlpha(month_annotated[1])
            swap    == YearIsAnnotator(day_annotated, month_annotated)
            d0 == [k \in AnnotationKeys |->
                    CASE k = "occurrence_id"      -> row[1]
                      [] k = "current_annotation" -> row[2]
                      [] k = "sequence_number"    ->
                            IF skipped THEN None ELSE seq_num
                      [] k = "family"             ->
                            IF skipped THEN seq_num ELSE rest2[1]
                      [] k = "day_annotated"      ->
                            IF day_annotated = ICBN THEN None
                            ELSE day_annotated
                      [] k = "month_annotated"    ->
                            IF month_annotated = ICBN \/ monthIsName
                            THEN None ELSE month_annotated
                      [] k = "annotated_by"       ->
                            IF swap THEN rest5[1]
                            ELSE IF monthIsName THEN month_annotated
                            ELSE mid[k]
                      [] k = "year_annotated"     ->
                            IF swap THEN None ELSE rest5[1]
                      [] k = "annotation_references" -> rest5[2]
                      [] k = "annotation_remarks"    -> rest5[3]
                      [] OTHER -> mid[k]]
            d1 == transform_invalid_booleans(d0, {"current_annotation"})
            d2 == transform_empty_to_none(d1, DOMAIN d1)
        IN  Returned(transform_question_mark_to_none(d2, {"sequence_number"}))

\* no length test: every pop of an exhausted list raises IndexError, and
\* columns beyond the last popped one are ignored
TypesHandler_dictify(row) ==
    IF Len(row) = 0 THEN Raised("IndexError")
    ELSE IF ~ParsesAsInt(row[1]) THEN Raised("ValueError")
    ELSE IF Len(row) < Len(TypeFields) THEN Raised("IndexError")
    ELSE LET d0 == PopFields(TypeFields, row)
             d1 == [d0 EXCEPT !["occurrence_id"] = IntOf(row[1])]
         IN  Returned(transform_empty_to_none(d1, DOMAIN d1))

MediaHandler_dictify(row) ==
    IF Len(row) < Len(MediaFields) THEN Raised("IndexError")
    ELSE LET d0 == PopFields(MediaFields, row)
         IN  Returned(transform_empty_to_none(d0, DOMAIN d0))

Kinds == {"occurrences", "annotations", "types", "media"}

\* mutant: a short row is padded with blanks and decoded
Dictify_Lenient(kind, row) ==
    LET n == CASE kind = "occurrences" -> OccurrenceColumns
               [] kind = "annotations" -> AnnotationColumns
               [] kind = "types"       -> Len(TypeFields)
               [] kind = "media"       -> Len(MediaFields)
        padded == [i \in 1..(IF Len(row) < n THEN n ELSE Len(row)) |->
                      IF i <= Len(row) THEN row[i] ELSE <<>>]
    IN  CASE kind = "occurrences" -> OccurencesHandler_dictify(padded)
          [] kind = "annotations" -> AnnotationsHandler_dictify(padded)
          [] kind = "types"       -> TypesHandler_dictify(padded)
          [] kind = "media"       -> MediaHandler_dictify(padded)

Dictify(kind, row) ==
    CASE kind = "occurrences" -> OccurencesHandler_dictify(row)
      [] kind = "annotations" -> AnnotationsHandler_dictify(row)
      [] kind = "types"       -> TypesHandler_dictify(row)
      [] kind = "media"       -> MediaHandler_dictify(row)

\* the column count the input format gives each kind
ExpectedColumns(kind) ==
    CASE kind = "occurrences" -> OccurrenceColumns
      [] kind = "annotations" -> AnnotationColumns
      [] kind = "types"       -> Len(TypeFields)
      [] kind = "media"       -> Len(MediaFields)

(***************************************************************************)
(* Validator.  Its state is v = [errors, sets, exc]: the error             *)
(* accumulator, the dictionary of sets, and the exception (if any) that    *)
(* left the method.  A method returns [v, ret].                            *)
(***************************************************************************)
Tables ==
    {"corpus_occurrences", "corpus_annotations", "corpus_media",
     "corpus_types"}

ValidIds == <<"valid_occurrence_ids">>
\* f'{table_name}:{key}'
SetKey(table_name, key) == <<table_name, ":", key>>

NewValidator ==
    [errors |-> [t \in Tables |-> <<>>],
     sets   |-> (ValidIds :> {}),
     exc    |-> "none"]

ReturnNone == [none |-> TRUE, message |-> <<>>, value |-> None]
ReturnError(message, value) ==
    [none |-> FALSE, message |-> message, value |-> value]

\* dict.get(entity_id, [])
ErrorsOf(errors, table_name, entity_id) ==
    IF entity_id \in DOMAIN errors[table_name]
    THEN errors[table_name][entity_id] ELSE <<>>

add_error_for_entity(v, table_name, entity_id, value) ==
    [v EXCEPT !.errors[table_name] =
        (entity_id :> Append(ErrorsOf(v.errors, table_name, entity_id),
                             value)) @@ @]

validate_fkey(v, table_name, entity) ==
    IF entity["occurrence_id"] \notin v.sets[ValidIds]
    THEN LET error == <<<<"Invalid foreign key">>, entity["occurrence_id"]>>
         IN  [v   |-> add_error_for_entity(v, table_name,
                          entity["occurrence_id"], error),
              ret |-> ReturnError(error[1], error[2])]
    ELSE [v |-> v, ret |-> ReturnNone]

\* mutant: a null value is reported like any other
IsDuplicate_NullsToo(value, seen) == value \in seen

\* the test that makes validate_unique report a duplicate
IsDuplicate(value, seen) == value # None /\ value \in seen

validate_unique(v, table_name, key, entity) ==
    LET set_key == SetKey(table_name, key)
        sets1   == IF set_key \in DOMAIN v.sets THEN v.sets
                   ELSE (set_key :> {}) @@ v.sets
        v1      == [v EXCEPT !.sets = sets1]
    IN  IF IsDuplicate(entity[key], sets1[set_key])
        THEN LET error == <<<<"Duplicate", key, "found">>, entity[key]>>
             IN  [v   |-> add_error_for_entity(v1, table_name,
                              entity["occurrence_id"], error),
                  ret |-> ReturnError(error[1], error[2])]
        ELSE [v   |-> [v1 EXCEPT !.sets[set_key] = @ \cup {entity[key]}],
              ret |-> ReturnNone]

DefaultLength == 255

validate_length(v, table_name, key, entity, length) ==
    IF entity[key] # None /\ Len(entity[key]) > length
    THEN LET error == <<<<"Value exceeds maximum length for key", key>>,
                        entity[key]>>
         IN  [v   |-> add_error_for_entity(v, table_name,
                          entity["occurrence_id"], error),
              ret |-> ReturnError(error[1], error[2])]
    ELSE [v |-> v, ret |-> ReturnNone]

\* the exception int(x) / Decimal(x) raises on a str x, "none" if it parses
IntRaises(x) == IF ParsesAsInt(x) THEN "none" ELSE "ValueError"
DecimalRaises(x) == IF ParsesAsDecimal(x) THEN "none" ELSE "InvalidOperation"

\* except ValueError: decimal.InvalidOperation derives from ArithmeticError
\* (DecimalException), not from ValueError
CaughtByExceptValueError(e) == e = "ValueError"

validate_integer(v, table_name, key, entity) ==
    IF entity[key] = None THEN [v |-> v, ret |-> ReturnNone]
    ELSE LET e == IntRaises(entity[key])
         IN  IF e = "none" THEN [v |-> v, ret |-> ReturnNone]
             ELSE IF CaughtByExceptValueError(e)
             THEN LET error == <<<<"Expected integer value for key", key>>,
                                 entity[key]>>
                  IN  [v   |-> add_error_for_entity(v, table_name,
                                   entity["occurrence_id"], error),
                       ret |-> ReturnError(error[1], error[2])]
             ELSE [v |-> [v EXCEPT !.exc = e], ret |-> ReturnNone]

validate_numeric(v, table_name, key, entity) ==
    IF entity[key] = None THEN [v |-> v, ret |-> ReturnNone]
    ELSE LET e == DecimalRaises(entity[key])
         IN  IF e = "none" THEN [v |-> v, ret |-> ReturnNone]
             ELSE IF CaughtByExceptValueError(e)
             THEN LET error == <<<<"Expected decimal value for key", key>>,
                                 entity[key]>>
                  IN  [v   |-> add_error_for_entity(v, table_name,
                                   entity["occurrence_id"], error),
                       ret |-> ReturnNone]
             ELSE [v |-> [v EXCEPT !.exc = e], ret |-> ReturnNone]

\* for field in fields: self.validate_xxx(table, field, entity); an
\* exception leaves the loop
RECURSIVE ValidateLengths(_, _, _, _, _)
ValidateLengths(v, table_name, fields, entity, length) ==
    IF fields = <<>> \/ v.exc # "none" THEN v
    ELSE ValidateLengths(
             validate_length(v, table_name, Head(fields), entity, length).v,
             table_name, Tail(fields), entity, length)

RECURSIVE ValidateNumerics(_, _, _, _)
ValidateNumerics(v, table_name, fields, entity) ==
    IF fields = <<>> \/ v.exc # "none" THEN v
    ELSE ValidateNumerics(
             validate_numeric(v, table_name, Head(fields), entity).v,
             table_name, Tail(fields), entity)

RECURSIVE ValidateIntegers(_, _, _, _)
ValidateIntegers(v, table_name, fields, entity) ==
    IF fields = <<>> \/ v.exc # "none" THEN v
    ELSE ValidateIntegers(
             validate_integer(v, table_name, Head(fields), entity).v,
             table_name, Tail(fields), entity)

\* 55 fields
occurrence_varchar_255_fields ==
    <<"guid", "basis_of_record", "herbarium", "collection", "dataset",
      "accession", "catalog", "barcode", "other_numbers", "family",
      "taxon_name", "scientific_name", "notho_genus", "genus",
      "notho_species", "specific_epithet", "specific_authors",
      "infraspecific_rank", "notho_infraspecies",
      "infraspecific_epithet", "infraspecific_authors", "hybrid_symbol",
      "notho_genus_2", "genus_2", "notho_species_2",
      "specific_epithet_2", "specific_authors_2", "infraspecific_rank_2",
      "notho_infraspecies_2", "infraspecific_epithet_2",
      "infraspecific_authors_2", "cultivar", "name_qualifier",
      "qualifier_position", "type_designation", "site_number",
      "collector", "collector_number", "other_collectors",
      "day_collected", "month_collected", "year_collected",
      "verbatim_collection_date", "day_of_year", "country",
      "state_province", "county", "verbatim_elevation", "verbatim_depth",
      "verbatim_coordinates", "geodetic_datum", "georeferenced_by",
      "georeference_sources", "phenology", "origin">>

\* 7 fields
occurrence_numeric_fields ==
    <<"minimum_elevation_in_meters", "maximum_elevation_in_meters",
      "minimum_depth_in_meters", "maximum_depth_in_meters",
      "decimal_latitude", "decimal_longitude",
      "coordinate_uncertainty_in_meters">>

\* 7 fields
media_varchar_255_fields ==
    <<"media_guid", "thumbnail_url", "file_url", "viewer_url",
      "date_created", "created_by", "publisher">>

\* 3 fields
media_varchar_124_fields ==
    <<"file_name", "file_format", "viewer_format">>

\* 14 fields
type_varchar_255_fields ==
    <<"family", "scientific_name", "notho_genus", "genus",
      "notho_species", "specific_epithet", "specific_authors",
      "infraspecific_rank", "notho_infraspecies",
      "infraspecific_epithet", "infraspecific_authors", "cultivar",
      "type_designation", "holotype_location">>

\* 27 fields
annotation_varchar_255_fields ==
    <<"family", "scientific_name", "notho_genus", "genus",
      "notho_species", "specific_epithet", "specific_authors",
      "infraspecific_rank", "notho_infraspecies",
      "infraspecific_epithet", "infraspecific_authors", "hybrid_symbol",
      "notho_genus_2", "genus_2", "notho_species_2",
      "specific_epithet_2", "specific_authors_2", "infraspecific_rank_2",
      "notho_infraspecies_2", "infraspecific_epithet_2",
      "infraspecific_authors_2", "cultivar", "name_qualifier",
      "qualifier_position", "nomenclatural_code", "annotated_by",
      "annotation_references">>

\* 4 fields
annotation_integer_fields ==
    <<"sequence_number", "day_annotated", "month_annotated",
      "year_annotated">>
type_integer_fields == <<"year_published">>

\* mutant: the key is recorded whatever validate_unique returned
SeedsValidKey_Always(e) == TRUE

\* whether validate_occurrence records the occurrence_id as a valid key,
\* given what validate_unique returned for guid
SeedsValidKey(e) == e.none

validate_occurrence(v, entity) ==
    LET u  == validate_unique(v, "corpus_occurrences", "guid", entity)
        v1 == IF SeedsValidKey(u.ret)
              THEN [u.v EXCEPT !.sets[ValidIds] =
                        @ \cup {entity["occurrence_id"]}]
              ELSE u.v
        v2 == ValidateLengths(v1, "corpus_occurrences",
                  occurrence_varchar_255_fields, entity, DefaultLength)
    IN  ValidateNumerics(v2, "corpus_occurrences",
            occurrence_numeric_fields, entity)

LicenseLength == 512

validate_media(v, entity) ==
    LET v1 == validate_fkey(v, "corpus_media", entity).v
        v2 == validate_length(v1, "corpus_media", "license", entity,
                              LicenseLength).v
        v3 == ValidateLengths(v2, "corpus_media", media_varchar_255_fields,
                              entity, DefaultLength)
    IN  ValidateLengths(v3, "corpus_media", media_varchar_124_fields,
                        entity, DefaultLength)

PublicationLength == 512

validate_type(v, entity) ==
    LET v1 == validate_fkey(v, "corpus_types", entity).v
        v2 == validate_length(v1, "corpus_types", "publication", entity,
                              PublicationLength).v
        v3 == ValidateLengths(v2, "corpus_types", type_varchar_255_fields,
                              entity, DefaultLength)
    IN  ValidateIntegers(v3, "corpus_types", type_integer_fields, entity)

validate_annotation(v, entity) ==
    LET v1 == validate_fkey(v, "corpus_annotations", entity).v
        v2 == ValidateLengths(v1, "corpus_annotations",
                  annotation_varchar_255_fields, entity, DefaultLength)
    IN  ValidateIntegers(v2, "corpus_annotations",
            annotation_integer_fields, entity)

ValidateEntity(kind, v, entity) ==
    CASE kind = "occurrences" -> validate_occurrence(v, entity)
      [] kind = "annotations" -> validate_annotation(v, entity)
      [] kind = "types"       -> validate_type(v, entity)
      [] kind = "media"       -> validate_media(v, entity)

(***************************************************************************)
(* The relational sink (a psycopg2 connection) and the log.  io is the     *)
(* world outside the process: executed is the list of bulk-insert calls    *)
(* (execute_values), pending the rows of the open transaction, committed   *)
(* the durable rows.  rollback() discards the open transaction, commit()   *)
(* makes it durable.                                                       *)
(***************************************************************************)
NewIo ==
    [executed |-> <<>>, pending |-> <<>>, committed |-> <<>>,
     rollbacks |-> 0, commits |-> 0, errors_logged |-> 0,
     warnings_logged |-> 0]

Rollback(w) == [w EXCEPT !.pending = <<>>, !.rollbacks = @ + 1]

Commit(w) ==
    [w EXCEPT !.committed = @ \o w.pending, !.pending = <<>>,
              !.commits = @ + 1]

\* try: self.execute(cursor, entities) -- fails says whether the sink raises
Execute(w, k, entities, fails) ==
    [w EXCEPT !.executed = Append(@, [kind |-> k, rows |-> entities,
                                      failed |-> fails]),
              !.pending  = IF fails THEN @ ELSE @ \o entities]

\* mutant: the error is logged but the transaction is not rolled back
OnInsertError_NoRollback(w) ==
    [w EXCEPT !.errors_logged = @ + 1, !.warnings_logged = @ + 1]

\* except Exception: log the error and a warning, roll back
OnInsertError(w) ==
    Rollback([w EXCEPT !.errors_logged = @ + 1, !.warnings_logged = @ + 1])

batch_insert(w, k, entities, fails) ==
    LET w1 == Execute(w, k, entities, fails)
    IN  IF fails THEN OnInsertError(w1) ELSE w1

(***************************************************************************)
(* BaseHandler.handle                                                      *)
(***************************************************************************)
DefaultBatchSize == 10000
TypesBatchSize == 1

\* mutant: the membership test is dropped
Include_Unfiltered(d, skip, valid_keys) == TRUE

\* mutant: the flag is read the wrong way round
Include_Inverted(d, skip, valid_keys) ==
    IF skip THEN d["occurrence_id"] \in valid_keys ELSE TRUE

\* lines 81-85: whether the decoded row joins the batch
Include(d, skip, valid_keys) ==
    IF ~skip THEN d["occurrence_id"] \in valid_keys ELSE TRUE

\* mutant: the batch is flushed one row late
FlushDue_Late(ents, size) == Len(ents) > size

\* line 89
FlushDue(ents, size) == Len(ents) >= size

\* line 97
FinalFlushDue(ents) == Len(ents) > 0

VARIABLES
    files,                 \* kind -> the rows of its file after the header
    dry_run, no_validate,  \* the command line
    tables,                \*   ({} stands for "no --tables given")
    pc,                    \* "main", "validate", "handle", "exit", or a
                           \*   routine called on its own
    kind,                  \* the record kind of the file being read
    todo,                  \* the stages __main__ has still to run
    idx,                   \* rows read from the current file
    v,                     \* the Validator
    entities, num_rows,    \* locals of handle
    batch_size, skip_fkey_validation, no_commit,   \* arguments of handle
    io,                    \* the sink and the log
    exc,                   \* the uncaught exception that ended the run,
                           \*   or "none"
    result,                \* what a routine called on its own returned
    trace                  \* the calls made on the Validator on its own

vars == <<files, dry_run, no_validate, tables, pc, kind, todo, idx, v,
          entities, num_rows, batch_size, skip_fkey_validation, no_commit,
          io, exc, result, trace>>

harness == <<result, trace>>
args == <<files, dry_run, no_validate, tables>>
handleArgs == <<skip_fkey_validation, no_commit>>

\* self.valid_keys is the Validator's set object itself
valid_keys == v.sets[ValidIds]

\* mutant: Media records are validated before the Occurrence records
ValidationOrder_MediaFirst ==
    <<"media", "occurrences", "types", "annotations">>
ValidationOrder == <<"occurrences", "media", "types", "annotations">>
HandleOrder == <<"occurrences", "annotations", "types", "media">>

Selected(tbls, k) == tbls = {} \/ k \in tbls

RECURSIVE HandleStages(_, _)
HandleStages(order, tbls) ==
    IF order = <<>> THEN <<>>
    ELSE (IF Selected(tbls, Head(order))
          THEN <<[pc |-> "handle", kind |-> Head(order),
                  batch_size |-> IF Head(order) = "types"
                                 THEN TypesBatchSize ELSE DefaultBatchSize]>>
          ELSE <<>>) \o HandleStages(Tail(order), tbls)

MainPlan(noval, tbls) ==
    (IF noval THEN <<>>
     ELSE [i \in 1..Len(ValidationOrder) |->
              [pc |-> "validate", kind |-> ValidationOrder[i],
               batch_size |-> DefaultBatchSize]])
    \o HandleStages(HandleOrder, tbls)

\* enter the next stage of plan, or exit
Enter(plan) ==
    /\ idx' = 0
    /\ entities' = <<>>
    /\ num_rows' = 0
    /\ IF plan = <<>>
       THEN /\ pc' = "exit"
            /\ todo' = <<>>
            /\ UNCHANGED <<kind, batch_size>>
       ELSE /\ pc' = Head(plan).pc
            /\ kind' = Head(plan).kind
            /\ batch_size' = Head(plan).batch_size
            /\ todo' = Tail(plan)

\* __main__ up to the first stage
Main ==
    /\ pc = "main"
    /\ exc = "none"
    /\ Enter(MainPlan(no_validate, tables))
    /\ UNCHANGED <<args, v, handleArgs, io, exc, harness>>

\* one iteration of the for loop of _validate_<kind>
ValidateRow ==
    /\ pc = "validate"
    /\ exc = "none"
    /\ idx < Len(files[kind])
    /\ idx' = idx + 1
    /\ LET r == Dictify(kind, files[kind][idx + 1])
       IN  IF r.exc # "none"
           THEN /\ exc' = r.exc
                /\ UNCHANGED <<v, num_rows>>
           ELSE LET v1 == ValidateEntity(kind, v, r.d)
                IN  IF v1.exc # "none"
                    THEN /\ exc' = v1.exc
                         /\ v' = [v1 EXCEPT !.exc = "none"]
                         /\ UNCHANGED num_rows
                    ELSE /\ v' = v1
                         /\ num_rows' = num_rows + 1
                         /\ UNCHANGED exc
    /\ UNCHANGED <<args, pc, kind, todo, entities, batch_size, handleArgs,
                   io, harness>>

\* the end of the file: _validate_<kind> returns
ValidateEnd ==
    /\ pc = "validate"
    /\ exc = "none"
    /\ idx = Len(files[kind])
    /\ Enter(todo)
    /\ UNCHANGED <<args, v, handleArgs, io, exc, harness>>

\* one iteration of the for loop of handle (lines 79-94)
HandleRow ==
    /\ pc = "handle"
    /\ exc = "none"
    /\ idx < Len(files[kind])
    /\ idx' = idx + 1
    /\ LET r == Dictify(kind, files[kind][idx + 1])
       IN  IF r.exc # "none"
           THEN /\ exc' = r.exc
                /\ UNCHANGED <<entities, num_rows, io>>
           ELSE LET ents1 == IF Include(r.d, skip_fkey_validation, valid_keys)
                             THEN Append(entities, r.d) ELSE entities
                    flush == FlushDue(ents1, batch_size)
                IN  \E fails \in (IF flush THEN BOOLEAN ELSE {FALSE}) :
                      LET io1 == IF flush THEN batch_insert(io, kind, ents1, fails)
                                 ELSE io
                      IN  /\ entities' = IF flush THEN <<>> ELSE ents1
                          /\ num_rows' = num_rows + 1
                          /\ io' = IF ~no_commit THEN Commit(io1) ELSE io1
                          /\ UNCHANGED exc
    /\ UNCHANGED <<args, pc, kind, todo, v, batch_size, handleArgs, harness>>

\* after the loop (lines 96-105): flush the partial batch and return
HandleFinish ==
    /\ pc = "handle"
    /\ exc = "none"
    /\ idx = Len(files[kind])
    /\ \E fails \in (IF FinalFlushDue(entities) THEN BOOLEAN ELSE {FALSE}) :
          io' = IF FinalFlushDue(entities)
                THEN batch_insert(io, kind, entities, fails) ELSE io
    /\ Enter(todo)
    /\ UNCHANGED <<args, v, handleArgs, exc, harness>>

(***************************************************************************)
(* Inputs.  A row is a list of raw column values; Row(n, cells) has n      *)
(* columns, empty except for the given cells.                              *)
(***************************************************************************)
Row(n, cells) == [i \in 1..n |-> IF i \in DOMAIN cells THEN cells[i] ELSE <<>>]

Pos(fields, name) == CHOOSE i \in 1..Len(fields) : fields[i] = name

SeqsUpTo(S, n) == UNION {[1..k -> S] : k \in 0..n}

Id1 == <<"1">>
Id2 == <<"2">>
Id3 == <<"3">>

\* a well-formed row of the kind with the given occurrence identifier (an
\* Annotation row carries a sequence number)
GoodRow(k, id) ==
    Row(ExpectedColumns(k),
        IF k = "annotations" THEN (1 :> id) @@ (3 :> <<"7">>) ELSE (1 :> id))

\* a row one column short
ShortRow(k) == Row(ExpectedColumns(k) - 1, (1 :> Id1))

MaxRows == 5
MaxBatch == 2

HandleKinds == {"media", "types"}
HandleRowSet(k) == {GoodRow(k, id) : id \in {Id1, Id3}} \cup {ShortRow(k)}

OnlyFile(k, f) == [x \in Kinds |-> IF x = k THEN f ELSE <<>>]

\* handle called on its own: any file, valid-key set, batch size and flags
InitHandle ==
    /\ kind \in HandleKinds
    /\ \E f \in SeqsUpTo(HandleRowSet(kind), MaxRows) : files = OnlyFile(kind, f)
    /\ \E keys \in {{Id1, Id2}, {Id3}} :
          v = [NewValidator EXCEPT !.sets[ValidIds] = keys]
    /\ batch_size \in 1..MaxBatch
    /\ skip_fkey_validation \in BOOLEAN
    /\ no_commit \in BOOLEAN
    /\ dry_run = no_commit
    /\ no_validate = skip_fkey_validation
    /\ tables = {kind}
    /\ pc = "handle"
    /\ todo = <<>>
    /\ idx = 0
    /\ entities = <<>>
    /\ num_rows = 0
    /\ io = NewIo
    /\ exc = "none"
    /\ result = ReturnNone
    /\ trace = <<>>

NextHandle == HandleRow \/ HandleFinish

SpecHandle == InitHandle /\ [][NextHandle]_vars

(***************************************************************************)
(* Properties of handle                                                    *)
(***************************************************************************)
RECURSIVE Concat(_)
Concat(ss) == IF ss = <<>> THEN <<>> ELSE Head(ss) \o Concat(Tail(ss))

\* the calls handle made for the current kind, and the rows they carried
CallsOf(k) == SelectSeq(io.executed, LAMBDA c : c.kind = k)
Handed(k) == Concat([i \in 1..Len(CallsOf(k)) |-> CallsOf(k)[i].rows])
FailedCalls(k) == {i \in 1..Len(CallsOf(k)) : CallsOf(k)[i].failed}

\* the decoded mappings of the first n rows of the file (all well-formed)
DecodedRows(k, n) == [i \in 1..n |-> Dictify(k, files[k][i]).d]
WellFormed(k) ==
    \A i \in 1..Len(files[k]) : Dictify(k, files[k][i]).exc = "none"

\* the rows of the first n that belong in the sink
InValidKeys(d) == d["occurrence_id"] \in valid_keys
Eligible(k, n) ==
    IF skip_fkey_validation THEN DecodedRows(k, n)
    ELSE SelectSeq(DecodedRows(k, n), InValidKeys)

CeilDiv(n, b) == (n + b - 1) \div b

PassDone == pc = "exit"

\* C1: with skip_fkey_validation false the rows handed to the sink over a
\* completed pass are exactly the decoded rows whose occurrence_id is in the
\* valid-key set, in file order; with it true they are all decoded rows.
\* While the pass runs, the rows handed so far plus the open batch are the
\* eligible rows among those read.
C1_ForeignKeyFiltering ==
    /\ (pc = "handle" /\ exc = "none" =>
            Handed(kind) \o entities = Eligible(kind, idx))
    /\ (PassDone =>
            /\ Handed(kind) = Eligible(kind, Len(files[kind]))
            /\ skip_fkey_validation =>
                   Handed(kind) = DecodedRows(kind, Len(files[kind]))
            /\ ~skip_fkey_validation =>
                   /\ \A i \in 1..Len(Handed(kind)) :
                          Handed(kind)[i]["occurrence_id"] \in valid_keys
                   /\ Len(Handed(kind)) =
                          Cardinality({i \in 1..Len(files[kind]) :
                              DecodedRows(kind, Len(files[kind]))[i]
                                  ["occurrence_id"] \in valid_keys}))

\* keys {1,2}, rows with keys [1,3], filtering on: only the row 1 is handed
C1_Witness ==
    /\ PassDone
    /\ ~skip_fkey_validation
    /\ kind = "media"
    /\ valid_keys = {Id1, Id2}
    /\ files[kind] = <<GoodRow(kind, Id1), GoodRow(kind, Id3)>>
    /\ Len(Handed(kind)) = 1
    /\ Handed(kind)[1]["occurrence_id"] = Id1

\* C2: a completed pass with n eligible rows and batch size b made exactly
\* ceil(n/b) bulk-insert calls, each but the last of exactly b rows, the
\* last of 1..b rows, none empty, and together the eligible rows in order.
C2_BatchFlushing ==
    PassDone =>
        LET n == Len(Eligible(kind, Len(files[kind])))
            calls == CallsOf(kind)
        IN  /\ Len(calls) = CeilDiv(n, batch_size)
            /\ \A i \in 1..Len(calls) :
                  /\ Len(calls[i].rows) >= 1
                  /\ Len(calls[i].rows) <= batch_size
                  /\ i < Len(calls) => Len(calls[i].rows) = batch_size
            /\ Handed(kind) = Eligible(kind, Len(files[kind]))

\* batch size 2 and 5 rows: three calls of sizes 2, 2, 1
C2_Witness ==
    /\ PassDone
    /\ batch_size = 2
    /\ Len(Eligible(kind, Len(files[kind]))) = 5
    /\ Len(CallsOf(kind)) = 3
    /\ Len(CallsOf(kind)[1].rows) = 2
    /\ Len(CallsOf(kind)[2].rows) = 2
    /\ Len(CallsOf(kind)[3].rows) = 1

\* C3: a failing bulk insert never ends the pass: the only exception that
\* leaves handle is a decode error of the row just read; each failed call
\* has one rollback and one logged error; and a completed pass still made
\* every call, each eligible row handed once (none re-submitted).
C3_FailureIsolation ==
    /\ io.rollbacks = Cardinality(FailedCalls(kind))
    /\ io.errors_logged = Cardinality(FailedCalls(kind))
    /\ (exc # "none" =>
            /\ idx >= 1
            /\ Dictify(kind, files[kind][idx]).exc = exc)
    /\ (WellFormed(kind) => exc = "none")
    /\ (PassDone =>
            /\ Len(CallsOf(kind)) =
                   CeilDiv(Len(Eligible(kind, Len(files[kind]))), batch_size)
            /\ Handed(kind) = Eligible(kind, Len(files[kind])))

\* the second of three batches failed; the first and the third were handed
C3_Witness ==
    /\ PassDone
    /\ Len(CallsOf(kind)) = 3
    /\ FailedCalls(kind) = {2}
    /\ io.rollbacks = 1
    /\ io.errors_logged = 1
    /\ Len(CallsOf(kind)[3].rows) = 1

(***************************************************************************)
(* The decoders on their own: one row of any kind is decoded.              *)
(***************************************************************************)
Pending == [exc |-> "pending", d |-> NoDict]

\* by how many columns a row may miss its kind's column count
MaxColumnsOff == 1

\* column positions of the Annotation layout when no column is skipped
AnnCol(name) ==
    CASE name = "sequence_number" -> 3
      [] name = "family" -> 4
      [] name = "day_annotated" -> Len(AnnotationMidFields) + 5
      [] name = "month_annotated" -> Len(AnnotationMidFields) + 6
      [] name = "year_annotated" -> Len(AnnotationMidFields) + 7
      [] OTHER -> Pos(AnnotationMidFields, name) + 4

\* well-sized Annotation rows over the values the decoder's heuristics test
AnnotationRows ==
    { Row(AnnotationColumns,
          (1 :> Id1) @@ (2 :> ca) @@ (3 :> sn) @@ (4 :> fa)
            @@ (5 :> <<"S">>)
            @@ (AnnCol("annotated_by") :> ab)
            @@ (AnnCol("day_annotated") :> da)
            @@ (AnnCol("month_annotated") :> mo)
            @@ (AnnCol("year_annotated") :> ye)
            @@ (AnnotationColumns :> <<"k">>)) :
        ca \in {<<>>, <<"Y">>, <<"n">>},
        sn \in {<<>>, <<"4", "2">>, <<"A", "s">>, <<"?">>},
        fa \in {<<>>, <<"F", "a">>},
        ab \in {<<>>, <<"B">>},
        da \in {<<>>, <<"7">>, ICBN},
        mo \in {<<>>, <<"8">>, <<"M", "o">>, ICBN},
        ye \in {<<>>, <<"1", "9">>, <<"A", "l">>} }

OccurrenceRows ==
    { Row(OccurrenceColumns,
          (1 :> id) @@ (2 :> <<"g">>)
            @@ (Pos(OccurrenceFields, "imaged") :> im)
            @@ (Pos(OccurrenceFields, "cultivated") :> cu)
            @@ (Pos(OccurrenceFields, "origin") :> <<"o">>)) :
        id \in {<<>>, Id1},
        im \in {<<>>, <<"Y">>, <<"t">>, <<"n", "o">>},
        cu \in {<<>>, <<"T">>, <<"x">>} }

TypeRows ==
    { Row(Len(TypeFields),
          (1 :> id) @@ (2 :> sn) @@ (Len(TypeFields) :> <<"n">>)) :
        id \in {<<>>, Id1, <<"0", "7">>, <<"x">>},
        sn \in {<<>>, <<"1">>} }

MediaRows ==
    { Row(Len(MediaFields),
          (1 :> id) @@ (2 :> mo) @@ (Len(MediaFields) :> <<"l">>)) :
        id \in {<<>>, Id1, <<"x">>},
        mo \in {<<>>, <<"m">>} }

\* rows with too few or too many columns (the extra ones filled)
MisSizedRows(k) ==
    { [i \in 1..n |-> IF i = 1 THEN Id1 ELSE <<"7">>] :
        n \in ((ExpectedColumns(k) - MaxColumnsOff)
                  ..(ExpectedColumns(k) + MaxColumnsOff))
              \ {ExpectedColumns(k)} }
      \cup {<<>>}

DecodeRows(k) ==
    MisSizedRows(k) \cup
    (CASE k = "occurrences" -> OccurrenceRows
       [] k = "annotations" -> AnnotationRows
       [] k = "types" -> TypeRows
       [] k = "media" -> MediaRows)

InitDecode ==
    /\ kind \in Kinds
    /\ \E row \in DecodeRows(kind) : files = OnlyFile(kind, <<row>>)
    /\ pc = "dictify"
    /\ result = Pending
    /\ v = NewValidator
    /\ batch_size = DefaultBatchSize
    /\ skip_fkey_validation = FALSE
    /\ no_commit = TRUE
    /\ dry_run = TRUE
    /\ no_validate = FALSE
    /\ tables = {}
    /\ todo = <<>>
    /\ idx = 0
    /\ entities = <<>>
    /\ num_rows = 0
    /\ io = NewIo
    /\ exc = "none"
    /\ trace = <<>>

\* d = <Kind>Handler.dictify(row)
DictifyCall ==
    /\ pc = "dictify"
    /\ exc = "none"
    /\ result' = Dictify(kind, files[kind][1])
    /\ pc' = "returned"
    /\ UNCHANGED <<args, kind, todo, idx, v, entities, num_rows, batch_size,
                   handleArgs, io, exc, trace>>

NextDecode == DictifyCall

SpecDecode == InitDecode /\ [][NextDecode]_vars

TheRow == files[kind][1]
Decoded == pc = "returned" /\ result.exc = "none"

\* C4: a row whose column count differs from the kind's never decodes to a
\* mapping.
C4_WrongColumnCountFails ==
    (pc = "returned" /\ Len(TheRow) # ExpectedColumns(kind))
        => result.exc # "none"

\* blank-to-null of one raw value
BlankToNull(x) == IF x = <<>> THEN None ELSE x

AllDigits(x) == Len(x) > 0 /\ \A i \in 1..Len(x) : x[i] \in Digits

\* C8: in a 34-column row, a raw value after current_annotation that starts
\* with a letter is decoded as family, with sequence_number null; a numeric
\* one is the sequence_number and family is the next raw value (null when
\* that value is empty, by blank-to-null).
C8_SequenceNumberRule ==
    (pc = "returned" /\ kind = "annotations"
        /\ Len(TheRow) = AnnotationColumns /\ TheRow[3] # <<>>) =>
      /\ IsAlpha(TheRow[3][1]) =>
            /\ result.exc = "none"
            /\ result.d["sequence_number"] = None
            /\ result.d["family"] = TheRow[3]
      /\ AllDigits(TheRow[3]) =>
            /\ result.exc = "none"
            /\ result.d["sequence_number"] = TheRow[3]
            /\ result.d["family"] = BlankToNull(TheRow[4])

C8_Witness ==
    /\ Decoded
    /\ kind = "annotations"
    /\ TheRow[3] = <<"A", "s">>
    /\ TheRow[4] = <<"F", "a">>
    /\ result.d["sequence_number"] = None
    /\ result.d["family"] = <<"A", "s">>
    /\ result.d["scientific_name"] = <<"F", "a">>

\* the raw values the Annotation decoder pops as day, month and year: one
\* column earlier when the sequence number was skipped
Skip(row) == IF IsAlpha(row[3][1]) THEN 1 ELSE 0
RawDay(row) == row[AnnCol("day_annotated") - Skip(row)]
RawMonth(row) == row[AnnCol("month_annotated") - Skip(row)]
RawYear(row) == row[AnnCol("year_annotated") - Skip(row)]
RawAnnotatedBy(row) == row[AnnCol("annotated_by") - Skip(row)]

\* C9 as stated: a day value of ICBN gives day_annotated null, annotated_by
\* from the value that would be year_annotated, and year_annotated null.
C9_AsStated ==
    (Decoded /\ kind = "annotations" /\ RawDay(TheRow) = ICBN) =>
        /\ result.d["day_annotated"] = None
        /\ result.d["annotated_by"] = BlankToNull(RawYear(TheRow))
        /\ result.d["year_annotated"] = None

\* C9 (amended): a day value of ICBN gives day_annotated null; it is a month
\* value of ICBN that gives month_annotated null, annotated_by from the
\* value that would be year_annotated, and year_annotated null.  With any
\* other month value year_annotated is that value, whatever the day.
C9_IcbnRule ==
    (Decoded /\ kind = "annotations") =>
        /\ RawDay(TheRow) = ICBN => result.d["day_annotated"] = None
        /\ RawMonth(TheRow) = ICBN =>
              /\ result.d["month_annotated"] = None
              /\ result.d["annotated_by"] = BlankToNull(RawYear(TheRow))
              /\ result.d["year_annotated"] = None
        /\ RawMonth(TheRow) # ICBN =>
              result.d["year_annotated"] = BlankToNull(RawYear(TheRow))

C9_Witness ==
    /\ Decoded
    /\ kind = "annotations"
    /\ RawDay(TheRow) = ICBN
    /\ RawMonth(TheRow) = ICBN
    /\ RawYear(TheRow) = <<"A", "l">>
    /\ RawAnnotatedBy(TheRow) = <<"B">>
    /\ result.d["annotated_by"] = <<"A", "l">>
    /\ result.d["year_annotated"] = None
    /\ result.d["day_annotated"] = None

(***************************************************************************)
(* Validator.validate_unique called on its own, on any table and field.    *)
(***************************************************************************)
MaxCalls == 3

ValA == <<"A">>
ValB == <<"B">>

\* an entity whose field key holds value
EntityWith(key, value) ==
    [k \in {"occurrence_id", key} |-> IF k = key THEN value ELSE Id1]

InitValidator ==
    /\ v = NewValidator
    /\ pc = "validator"
    /\ trace = <<>>
    /\ result = ReturnNone
    /\ files = [k \in Kinds |-> <<>>]
    /\ kind = "occurrences"
    /\ batch_size = DefaultBatchSize
    /\ skip_fkey_validation = FALSE
    /\ no_commit = TRUE
    /\ dry_run = TRUE
    /\ no_validate = FALSE
    /\ tables = {}
    /\ todo = <<>>
    /\ idx = 0
    /\ entities = <<>>
    /\ num_rows = 0
    /\ io = NewIo
    /\ exc = "none"

\* e = validator.validate_unique(table, key, entity)
CallValidateUnique ==
    /\ pc = "validator"
    /\ Len(trace) < MaxCalls
    /\ \E t \in {"corpus_occurrences", "corpus_media"},
          k \in {"guid", "barcode"},
          x \in {ValA, ValB, None} :
          LET r == validate_unique(v, t, k, EntityWith(k, x))
          IN  /\ v' = r.v
              /\ result' = r.ret
              /\ trace' = Append(trace, [table |-> t, key |-> k, value |-> x,
                                         reported |-> ~r.ret.none])
    /\ UNCHANGED <<args, pc, kind, todo, idx, entities, num_rows, batch_size,
                   handleArgs, io, exc>>

NextValidator == CallValidateUnique

SpecValidator == InitValidator /\ [][NextValidator]_vars

\* the calls before call i on the same (table, field) with the same value
EarlierSame(i) ==
    {j \in 1..(i - 1) : /\ trace[j].table = trace[i].table
                        /\ trace[j].key = trace[i].key
                        /\ trace[j].value = trace[i].value}

\* the values passed so far for (t, k)
Passed(t, k) ==
    {trace[i].value : i \in {j \in 1..Len(trace) :
                                trace[j].table = t /\ trace[j].key = k}}

\* after any calls, each pair's seen-set is the set of values passed for it
\* (and a pair never called has no set)
SeenSetsExact ==
    \A t \in Tables, k \in {"guid", "barcode"} :
        IF Passed(t, k) = {} THEN SetKey(t, k) \notin DOMAIN v.sets
        ELSE /\ SetKey(t, k) \in DOMAIN v.sets
             /\ v.sets[SetKey(t, k)] = Passed(t, k)

\* C6 as stated: a call reports a duplicate iff its value was passed to an
\* earlier call for the same (table, field).
C6_AsStated ==
    /\ \A i \in 1..Len(trace) : trace[i].reported <=> EarlierSame(i) # {}
    /\ SeenSetsExact

\* C6 (amended): a call reports a duplicate iff its value is not null and
\* was passed to an earlier call for the same (table, field); the seen-set
\* of each pair is the set of values passed for it, whatever was passed for
\* other pairs.
C6_Uniqueness ==
    /\ \A i \in 1..Len(trace) :
          trace[i].reported <=>
              (trace[i].value # None /\ EarlierSame(i) # {})
    /\ SeenSetsExact

\* [A, B, A] on one pair: no error, no error, duplicate; seen-set {A, B}
C6_Witness ==
    /\ Len(trace) = 3
    /\ \A i \in 1..3 : trace[i].table = "corpus_occurrences"
                       /\ trace[i].key = "guid"
    /\ trace[1].value = ValA /\ ~trace[1].reported
    /\ trace[2].value = ValB /\ ~trace[2].reported
    /\ trace[3].value = ValA /\ trace[3].reported
    /\ ~result.none
    /\ result.value = ValA
    /\ v.sets[SetKey("corpus_occurrences", "guid")] = {ValA, ValB}

(***************************************************************************)
(* The whole program: __main__ on any files and flags.                     *)
(***************************************************************************)
Guid1 == <<"g">>
Guid2 == <<"h">>

ElevationCol == Pos(OccurrenceFields, "minimum_elevation_in_meters")

Occ(id, guid, elevation) ==
    Row(OccurrenceColumns,
        (1 :> id) @@ (2 :> guid) @@ (ElevationCol :> elevation))

MainOccurrenceRows ==
    {Occ(Id1, Guid1, <<"1", ".", "5">>), Occ(Id1, Guid2, <<>>),
     Occ(Id2, Guid1, <<>>), Occ(Id2, Guid2, <<"x">>),
     Occ(Id1, <<>>, <<>>), Occ(Id2, <<>>, <<>>)}

MaxOccurrences == 2

\* the occurrence identifiers of the rows of each dependent file
DependentIdLists == {<<>>, <<Id1>>, <<Id2>>, <<Id1, Id3>>}

Init ==
    /\ \E occ \in SeqsUpTo(MainOccurrenceRows, MaxOccurrences),
          dep \in DependentIdLists :
          files = [k \in Kinds |->
                      IF k = "occurrences" THEN occ
                      ELSE [i \in 1..Len(dep) |-> GoodRow(k, dep[i])]]
    /\ dry_run \in BOOLEAN
    /\ no_validate \in BOOLEAN
    /\ tables = {}
    /\ pc = "main"
    /\ v = NewValidator
    /\ skip_fkey_validation = no_validate
    /\ no_commit = dry_run
    /\ kind = "occurrences"
    /\ batch_size = DefaultBatchSize
    /\ todo = <<>>
    /\ idx = 0
    /\ entities = <<>>
    /\ num_rows = 0
    /\ io = NewIo
    /\ exc = "none"
    /\ result = ReturnNone
    /\ trace = <<>>

Next == Main \/ ValidateRow \/ ValidateEnd \/ HandleRow \/ HandleFinish

Spec == Init /\ [][Next]_vars

(***************************************************************************)
(* Properties of the whole program                                         *)
(***************************************************************************)
OccFile == files["occurrences"]
OccDecoded(i) == Dictify("occurrences", OccFile[i]).d
OccId(i) == OccDecoded(i)["occurrence_id"]
OccGuid(i) == OccDecoded(i)["guid"]
AllOccDecoded == [i \in 1..Len(OccFile) |-> OccDecoded(i)]

\* the number of Occurrence rows validate_occurrence has been called on
OccValidated ==
    IF no_validate \/ pc = "main" THEN 0
    ELSE IF pc = "validate" /\ kind = "occurrences"
         THEN (IF exc \in {"ValueError", "IndexError"} THEN idx - 1 ELSE idx)
         ELSE Len(OccFile)

\* row i's guid passed the uniqueness check when it was validated: it is
\* null or no earlier row carries it
PassedUnique(i) ==
    OccGuid(i) = None \/ \A j \in 1..(i - 1) : OccGuid(j) # OccGuid(i)

\* the Occurrence ingestion pass has run to its end after validation
OccPassDone ==
    /\ ~no_validate
    /\ Selected(tables, "occurrences")
    /\ pc = "exit" \/ (pc = "handle" /\ kind # "occurrences")

InRows(d, rows) == \E i \in 1..Len(rows) : rows[i] = d

\* C5 as stated: two Occurrence rows with distinct occurrence_id and the
\* same guid are both handed to the sink.
C5_AsStated ==
    OccPassDone =>
        \A i, j \in 1..Len(OccFile) :
            (i < j /\ OccGuid(i) = OccGuid(j) /\ OccId(i) # OccId(j)) =>
                /\ InRows(OccDecoded(i), Handed("occurrences"))
                /\ InRows(OccDecoded(j), Handed("occurrences"))

\* the occurrence_id of d was recorded by a row whose guid passed the check
SeededBySomeRow(d) ==
    \E k \in 1..Len(OccFile) :
        PassedUnique(k) /\ OccId(k) = d["occurrence_id"]

DuplicateGuidFinding(i) == <<<<"Duplicate", "guid", "found">>, OccGuid(i)>>

\* C5 (amended): after validation, the Occurrence pass with filtering on
\* hands over exactly the rows whose occurrence_id was recorded by a row
\* whose guid passed the uniqueness check: a row repeating an earlier
\* row's non-null guid is flagged and is handed only if another row with
\* its occurrence_id passed the check.
C5_DuplicateGuidFiltered ==
    OccPassDone =>
        /\ Handed("occurrences") = SelectSeq(AllOccDecoded, SeededBySomeRow)
        /\ \A j \in 1..Len(OccFile) :
              ~PassedUnique(j) =>
                  InRows(DuplicateGuidFinding(j),
                         ErrorsOf(v.errors, "corpus_occurrences", OccId(j)))

\* rows (1, g) and (2, g): only the first is handed, the second is flagged
C5_Witness ==
    /\ OccPassDone
    /\ Len(OccFile) = 2
    /\ OccGuid(1) = Guid1 /\ OccGuid(2) = Guid1
    /\ OccId(1) = Id1 /\ OccId(2) = Id2
    /\ Handed("occurrences") = <<OccDecoded(1)>>
    /\ ErrorsOf(v.errors, "corpus_occurrences", Id2) =
           <<DuplicateGuidFinding(2)>>

\* C7: at every point of the run the valid-key set is the set of the
\* occurrence_id values of the Occurrence rows validated so far whose guid
\* passed the uniqueness check when they were validated; validating
\* dependents and loading never change it.
C7_ValidKeySet ==
    valid_keys = {OccId(i) : i \in {j \in 1..OccValidated : PassedUnique(j)}}

\* rows (1, g) and (2, g) were validated and the run is over: the set is {1}
C7_Witness ==
    /\ pc = "exit"
    /\ OccValidated = 2
    /\ OccGuid(1) = Guid1 /\ OccGuid(2) = Guid1
    /\ OccId(1) = Id1 /\ OccId(2) = Id2
    /\ valid_keys = {Id1}

NumericFinding(f, x) == <<<<"Expected decimal value for key", f>>, x>>

\* C10: a non-null value of a numeric field that does not parse as a decimal
\* leaves a finding under the row's table and occurrence_id and raises
\* nothing, so that validation goes on; a null or parseable value leaves no
\* finding.
C10_NumericNonFatal ==
    \A i \in 1..OccValidated :
        \A n \in 1..Len(occurrence_numeric_fields) :
            LET f == occurrence_numeric_fields[n]
                x == OccDecoded(i)[f]
                found == ErrorsOf(v.errors, "corpus_occurrences", OccId(i))
            IN  IF x # None /\ ~ParsesAsDecimal(x)
                THEN /\ exc = "none"
                     /\ InRows(NumericFinding(f, x), found)
                ELSE ~InRows(NumericFinding(f, x), found)

(***************************************************************************)
(* Transactions and aborted passes (handle on its own)                     *)
(***************************************************************************)
\* the rows of the calls whose bulk insert succeeded, in order
RECURSIVE SucceededRows(_)
SucceededRows(calls) ==
    IF calls = <<>> THEN <<>>
    ELSE (IF Head(calls).failed THEN <<>> ELSE Head(calls).rows)
             \o SucceededRows(Tail(calls))

\* C11: in every mode, the rows of the batches inserted without error are
\* still in the sink (committed, or pending in the open transaction)
\* whatever later batch failed and was rolled back.
C11_RollbackOnlyFailingBatch ==
    io.committed \o io.pending = SucceededRows(io.executed)

\* C16: with commits enabled, when the pass is over every row of a batch
\* whose bulk insert succeeded is committed, the final partial batch
\* included.
C16_SucceededBatchesCommitted ==
    (PassDone /\ ~no_commit) =>
        /\ io.committed = SucceededRows(io.executed)
        /\ io.pending = <<>>

\* a row too short for the decoder of its kind (media, types): a pop fails
TooShort(k, row) == Len(row) < ExpectedColumns(k)
ShortRowsOf(k) == {i \in 1..Len(files[k]) : TooShort(k, files[k][i])}

Floor(n, b) == n \div b

\* C13: the first row that fails to decode ends the pass with its error:
\* no later row is read and no further step is taken, the pass never
\* completes, the calls made are the full batches of the eligible rows
\* before it, the rows of the open batch are not handed over, and the
\* abort issues no rollback of its own.
C13_DecodeErrorFatal ==
    /\ \A i \in ShortRowsOf(kind) :
          (pc = "handle" /\ idx >= i) => (exc # "none" /\ idx = i)
    /\ (ShortRowsOf(kind) # {} => ~PassDone)
    /\ (exc # "none" =>
          /\ idx \in ShortRowsOf(kind)
          /\ ~ENABLED NextHandle
          /\ Handed(kind) \o entities = Eligible(kind, idx - 1)
          /\ Len(CallsOf(kind)) =
                 Floor(Len(Eligible(kind, idx - 1)), batch_size)
          /\ Len(entities) < batch_size
          /\ io.rollbacks = Cardinality(FailedCalls(kind)))

\* batch size 2, three good rows, then a short row: one call of two rows
\* was made, the third row stays in the open batch and is never handed
C13_Witness ==
    /\ exc # "none"
    /\ batch_size = 2
    /\ idx = 4
    /\ Len(files[kind]) = 5
    /\ Len(CallsOf(kind)) = 1
    /\ ~CallsOf(kind)[1].failed
    /\ Len(entities) = 1
    /\ io.rollbacks = 0

(***************************************************************************)
(* Helper order and blank sequence numbers (decoders on their own)         *)
(***************************************************************************)
\* the raw value of a coerced boolean field of the decoded row
RawOf(k, f) ==
    IF k = "occurrences" THEN TheRow[Pos(OccurrenceFields, f)] ELSE TheRow[2]

BooleanFields(k) ==
    CASE k = "occurrences" -> OccurenceBooleans
      [] k = "annotations" -> {"current_annotation"}
      [] OTHER             -> {}

\* C12 as stated: a blank raw value of a coerced boolean field decodes to
\* null.
C12_AsStated ==
    Decoded =>
        \A f \in BooleanFields(kind) :
            RawOf(kind, f) = <<>> => result.d[f] = None

\* C12: a coerced boolean field decodes to true when its raw value is y or
\* t in either case and to false otherwise; a blank raw value decodes to
\* false, never to null: blank-to-null runs second and finds False.
C12_BlankBooleanIsFalse ==
    Decoded =>
        \A f \in BooleanFields(kind) :
            /\ result.d[f] = (IF Lower(RawOf(kind, f)) \in {<<"y">>, <<"t">>}
                              THEN PyTrue ELSE PyFalse)
            /\ (RawOf(kind, f) = <<>> => result.d[f] = PyFalse)

\* an Occurrence row with blank imaged and cultivated: both false, while a
\* blank field that is not coerced became null
C12_Witness ==
    /\ Decoded
    /\ kind = "occurrences"
    /\ RawOf(kind, "imaged") = <<>>
    /\ RawOf(kind, "cultivated") = <<>>
    /\ TheRow[Pos(OccurrenceFields, "accepted")] = <<>>
    /\ result.d["imaged"] = PyFalse
    /\ result.d["cultivated"] = PyFalse
    /\ result.d["accepted"] = PyFalse
    /\ TheRow[1] = <<>>
    /\ result.d["occurrence_id"] = None

\* C17: every Annotation row of exactly 34 fields decodes; when the value
\* after current_annotation is blank, sequence_number is null and family
\* is the next raw value.
C17_BlankSequenceNumberDecodes ==
    (pc = "returned" /\ kind = "annotations"
        /\ Len(TheRow) = AnnotationColumns) =>
      /\ result.exc = "none"
      /\ TheRow[3] = <<>> =>
            /\ result.d["sequence_number"] = None
            /\ result.d["family"] = BlankToNull(TheRow[4])

(***************************************************************************)
(* Dependents in validate_corpus and in the passes that follow             *)
(***************************************************************************)
Dependents == {"media", "types", "annotations"}

TableOf(k) ==
    CASE k = "occurrences" -> "corpus_occurrences"
      [] k = "annotations" -> "corpus_annotations"
      [] k = "types"       -> "corpus_types"
      [] k = "media"       -> "corpus_media"

\* the number of rows of kind k that _validate_<k> has validated
Validated(k) ==
    IF no_validate \/ pc = "main" THEN 0
    ELSE IF pc = "validate"
         THEN (IF Pos(ValidationOrder, kind) > Pos(ValidationOrder, k)
               THEN Len(files[k])
               ELSE IF kind = k
                    THEN (IF exc \in {"ValueError", "IndexError"}
                          THEN idx - 1 ELSE idx)
                    ELSE 0)
         ELSE Len(files[k])

DepDecoded(k, i) == Dictify(k, files[k][i]).d
DepId(k, i) == DepDecoded(k, i)["occurrence_id"]

\* the valid-key set once every Occurrence row has been validated
FinalValidKeys ==
    {OccId(i) : i \in {j \in 1..Len(OccFile) : PassedUnique(j)}}

ForeignKeyFinding(id) == <<<<"Invalid foreign key">>, id>>
HasForeignKeyFinding(k, id) ==
    InRows(ForeignKeyFinding(id), ErrorsOf(v.errors, TableOf(k), id))

\* C14: once a dependent record has been checked, every Occurrence row has
\* been validated and the valid-key set is the final one, from the first
\* dependent check to the end of the run; a checked dependent has a
\* foreign-key finding iff its occurrence_id is not in that set.
C14_ValidationOrdering ==
    \A k \in Dependents :
        Validated(k) > 0 =>
            /\ Validated("occurrences") = Len(OccFile)
            /\ valid_keys = FinalValidKeys
            /\ \A i \in 1..Validated(k) :
                  HasForeignKeyFinding(k, DepId(k, i))
                      <=> DepId(k, i) \notin FinalValidKeys

\* occurrence 1 is valid; Media rows 1 and 3 were checked: only 3 is flagged
C14_Witness ==
    /\ pc = "exit"
    /\ ~no_validate
    /\ Len(OccFile) > 0
    /\ valid_keys = {Id1}
    /\ Len(files["media"]) = 2
    /\ DepId("media", 1) = Id1 /\ DepId("media", 2) = Id3
    /\ ~HasForeignKeyFinding("media", Id1)
    /\ HasForeignKeyFinding("media", Id3)
    /\ ~HasForeignKeyFinding("annotations", Id1)
    /\ HasForeignKeyFinding("annotations", Id3)

\* the Type pass has run to its end
TypePassDone == pc = "exit" \/ (pc = "handle" /\ kind = "media")

\* C15: a Type row whose occurrence identifier text is in the valid-key
\* set gets no foreign-key finding when it is validated and, with filtering
\* on, has been handed to the sink when the Type pass is over.
C15_TypesFilteredLikeOthers ==
    \A i \in 1..Len(files["types"]) :
        files["types"][i][1] \in valid_keys =>
            /\ (Validated("types") >= i =>
                    ~HasForeignKeyFinding("types", DepId("types", i)))
            /\ ((TypePassDone /\ ~skip_fkey_validation) =>
                    InRows(DepDecoded("types", i), Handed("types")))
=============================================================================
